---- MODULE Spec2Model ----
(***************************************************************************)
(* A model of the brainfuck interpreter of src/src/main.rs: the lexer      *)
(* (impl From<char> for Token, tokenize), the recursive-descent parser     *)
(* (build_ast, parse) and the tree-walking evaluator (_interpret,          *)
(* interpret).                                                             *)
(*                                                                         *)
(* A source string is a sequence of one-character strings.  The parser is  *)
(* a pure function and is modelled by RECURSIVE operators that thread the  *)
(* token iterator's position the way build_ast threads `tokens`.  The      *)
(* evaluator is modelled one executed node per step: the recursion of      *)
(* _interpret is a stack of frames, one per active call, each holding the  *)
(* node sequence it iterates and the position of its `for` loop.           *)
(*                                                                         *)
(* Two things the build decides are part of the state:                     *)
(*   - overflow_checks: rustc's overflow-checks (on in the dev profile,    *)
(*     off in the release profile).  `+= 1` / `-= 1` panic on overflow     *)
(*     when it is on and wrap when it is off.                              *)
(*   - the width of usize (UsizeBits).                                     *)
(* Slice indexing data[*ptr] is bounds-checked in every build and panics   *)
(* when *ptr >= data.len().                                                *)
(*                                                                         *)
(* Standard input is the environment: each executed Input either receives  *)
(* one byte or meets end of stream.  Standard output is assumed to accept  *)
(* every byte written to it.                                               *)
(***************************************************************************)
EXTENDS Integers, Sequences, FiniteSets, TLC

\* ------------------------------------------------------------------ bounds

\* Longest source string drawn exhaustively from Alphabet.
MaxLen == 3

\* Number of tape cells (30_000 in interpret, main.rs:118); kept small so that
\* the right end of the tape is reached.
TapeLen == 3

\* Width of usize in bits (64 or 32 on the usual targets).  A run of the
\* bounded sources never shifts the pointer more than a few cells past either
\* end of the tape before a cell access panics, so the wrap from 0 to
\* usize::MAX and back behaves the same for every width above log2(TapeLen).
UsizeBits == 16

\* Longest output the model follows a run to: a loop such as `+[.]` writes
\* for ever.  The longest output of a terminating source here is 6 bytes.
MaxOut == 6

\* Most bytes the model lets a run read: a loop such as `,[,]` reads for ever.
MaxRead == 3

\* ------------------------------------------------------- program constants

\* A cell is a u8: values 0 .. 255.
CellMod == 256

UsizeMod == 2 ^ UsizeBits

\* ------------------------------------------------------------------ inputs

InstrChars == {">", "<", "+", "-", ".", ",", "[", "]"}

\* Two characters that are not instructions: a letter and a newline.
CommentChars == {"a", "\n"}

Alphabet == InstrChars \cup CommentChars

Strings(n) == UNION {[1..k -> Alphabet] : k \in 0..n}

\* The programs the specification names: `+[-.]`, the same with comment
\* characters inserted, and `++[>+++[<.>-]<-]`.
LoopOnce == <<"+", "[", "-", ".", "]">>

LoopOnceCommented == <<"a", "+", "[", "\n", "-", "a", ".", "]", "\n">>

NestedLoops ==
    <<"+", "+", "[", ">", "+", "+", "+", "[", "<", ".", ">", "-", "]", "<", "-", "]">>

\* `+[]`, the empty loop entered with a nonzero cell.
EmptyLoop == <<"+", "[", "]">>

\* Two programs with balanced brackets that shift out of the tape inside a
\* loop body: `+[<+]` at the left end and `+[>+]` at the right end.
LeftInLoop == <<"+", "[", "<", "+", "]">>

RightInLoop == <<"+", "[", ">", "+", "]">>

Sources ==
    Strings(MaxLen)
        \cup {LoopOnce, LoopOnceCommented, NestedLoops, EmptyLoop, LeftInLoop,
              RightInLoop}

\* What standard input does when it is read: it delivers one of these bytes,
\* or it is at its end.
InputBytes == {0, 1, 255}

Byte(b) == [eof |-> FALSE, byte |-> b]

EOF == [eof |-> TRUE, byte |-> 0]

StdinEvents == {Byte(b) : b \in InputBytes} \cup {EOF}

\* ------------------------------------------------------------------- lexer

\* enum Token: Expr(char) is <<"Expr", c>>, the others are one-element tuples.
OpenLoop == <<"OpenLoop">>

CloseLoop == <<"CloseLoop">>

Comment == <<"Comment">>

Expr(c) == <<"Expr", c>>

\* A lexer with the two bracket arms exchanged.
TokenFromBracketsSwapped(value) ==
    CASE value \in {">", "<", ".", ",", "+", "-"} -> Expr(value)
      [] value = "[" -> CloseLoop
      [] value = "]" -> OpenLoop
      [] OTHER -> Comment

\* A lexer whose catch-all arm keeps the character as an expression instead of
\* classifying it as a comment.
TokenFromNoComment(value) ==
    CASE value = "[" -> OpenLoop
      [] value = "]" -> CloseLoop
      [] OTHER -> Expr(value)

\* impl From<char> for Token
TokenFrom(value) ==
    CASE value \in {">", "<", ".", ",", "+", "-"} -> Expr(value)
      [] value = "[" -> OpenLoop
      [] value = "]" -> CloseLoop
      [] OTHER -> Comment

\* tokenize: input.chars().map(|c| c.into()).collect()
tokenize(input) == [i \in 1..Len(input) |-> TokenFrom(input[i])]

\* ------------------------------------------------------------------ parser

\* enum Node.  Every node is a record of the same shape; only a Loop has
\* children.
Leaf(op) == [op |-> op, children |-> <<>>]

Loop(children) == [op |-> "Loop", children |-> children]

\* An inner match that lacks the arm for `,`.
ExprNodeNoInput(c) ==
    CASE c = ">" -> Leaf("ShiftRight")
      [] c = "<" -> Leaf("ShiftLeft")
      [] c = "+" -> Leaf("Incr")
      [] c = "-" -> Leaf("Decr")
      [] c = "." -> Leaf("Output")
      [] OTHER -> Leaf("unknown")

\* The inner match of build_ast on Expr(c): the node pushed, or "unknown".
ExprNode(c) ==
    CASE c = ">" -> Leaf("ShiftRight")
      [] c = "<" -> Leaf("ShiftLeft")
      [] c = "+" -> Leaf("Incr")
      [] c = "-" -> Leaf("Decr")
      [] c = "." -> Leaf("Output")
      [] c = "," -> Leaf("Input")
      [] OTHER -> Leaf("unknown")

\* What a call of build_ast hands back: its Result, and the position of the
\* shared iterator `tokens` (the index of the next token it would yield).
Ok(ast, pos) == [ok |-> TRUE, ast |-> ast, pos |-> pos]

Err(pos) == [ok |-> FALSE, ast |-> <<>>, pos |-> pos]

\* A parser whose recursive call works on a copy of the iterator: the caller
\* goes on right after the `[`.
ResumeAfterLoopCopied(pos, r) == pos + 1

\* Where the caller's `while let` continues after the recursive call
\* build_ast(tokens) returned r: `tokens` is one iterator borrowed mutably by
\* both calls, so the caller goes on from where the callee stopped.
ResumeAfterLoop(pos, r) == r.pos

\* Token::CloseLoop => return Ok(ast): tokens.next() has consumed the `]`.
OnCloseLoop(ast, pos) == Ok(ast, pos + 1)

\* Token::Comment => {}: nothing is pushed.
OnComment(ast) == ast

\* build_ast: the `while let Some(token) = tokens.next()` loop, entered with
\* the iterator at pos and the vector `ast` built so far.
RECURSIVE build_ast(_, _, _)
build_ast(tokens, pos, ast) ==
    IF pos > Len(tokens)
    THEN Ok(ast, pos)
    ELSE LET token == tokens[pos] IN
         CASE token[1] = "Expr" ->
                  IF ExprNode(token[2]).op = "unknown"
                  THEN Err(pos + 1)
                  ELSE build_ast(tokens, pos + 1, Append(ast, ExprNode(token[2])))
           [] token = OpenLoop ->
                  LET r == build_ast(tokens, pos + 1, <<>>) IN
                  IF r.ok
                  THEN build_ast(tokens, ResumeAfterLoop(pos, r),
                                 Append(ast, Loop(r.ast)))
                  ELSE r
           [] token = CloseLoop -> OnCloseLoop(ast, pos)
           [] OTHER -> build_ast(tokens, pos + 1, OnComment(ast))

\* parse: build_ast(&mut tokenize(input).into_iter())
parse(input) == build_ast(tokenize(input), 1, <<>>)

\* ------------------------------------------------------------------- state

VARIABLES
    src,               \* the source text handed to interpret
    overflow_checks,   \* whether the build panics on integer overflow
    cursor,            \* position of the token iterator when parse returned
    run,               \* the run of interpret(src)
    twin               \* the run of interpret on src without its comments

vars == <<src, overflow_checks, cursor, run, twin>>

\* The source with every character that is not an instruction removed.
Strip(input) == SelectSeq(input, LAMBDA c : c \in InstrChars)

\* --------------------------------------------------------------- evaluator

\* A tape whose last cell is not cleared.
TapeNotCleared == [i \in 0..(TapeLen - 1) |-> IF i = TapeLen - 1 THEN 255 ELSE 0]

\* let mut data = [0_u8; 30_000]
ZeroTape == [i \in 0..(TapeLen - 1) |-> 0]

\* One activation of _interpret: the sequence it iterates and the index of
\* the node its `for` loop is at.
Frame(nodes) == [nodes |-> nodes, idx |-> 1]

\* Before interpret is called.
Idle ==
    [status |-> "start", ast |-> <<>>, stack |-> <<>>, data |-> ZeroTape,
     ptr |-> 0, output |-> <<>>, nread |-> 0, panic |-> "none"]

\* interpret, lines 116-120: the Result of parse decides between returning the
\* error (`?`) and calling _interpret on a zeroed tape with ptr = 0.
Begin(p) ==
    IF p.ok
    THEN [Idle EXCEPT !.status = "running", !.ast = p.ast,
                      !.stack = <<Frame(p.ast)>>]
    ELSE [Idle EXCEPT !.status = "parse_error"]

Top(r) == r.stack[Len(r.stack)]

\* The `for node in ast` of the innermost call has no node left.
AtEnd(r) == Top(r).idx > Len(Top(r).nodes)

\* The node the innermost call is about to execute.
Cur(r) == Top(r).nodes[Top(r).idx]

Running(r) == r.status = "running"

At(r, op) == Running(r) /\ ~AtEnd(r) /\ Cur(r).op = op

\* The `for` loop of the innermost call moves to its next node.
Advance(r) == [r EXCEPT !.stack[Len(r.stack)].idx = @ + 1]

\* A panic unwinds the process: nothing runs after it.
Panic(r, why) == [r EXCEPT !.status = "panicked", !.panic = why]

\* The bounds check of data[*ptr].
InBounds(p) == p < TapeLen

\* u8 addition and subtraction of 1 in a build without overflow checks.
WrapIncr(v) == (v + 1) % CellMod

WrapDecr(v) == (v + CellMod - 1) % CellMod

\* Node::Incr => data[*ptr] += 1
ExecIncr(r, oc) ==
    IF ~InBounds(r.ptr) THEN Panic(r, "index out of bounds")
    ELSE IF r.data[r.ptr] + 1 >= CellMod /\ oc
    THEN Panic(r, "attempt to add with overflow")
    ELSE Advance([r EXCEPT !.data[r.ptr] = WrapIncr(@)])

\* Node::Decr => data[*ptr] -= 1
ExecDecr(r, oc) ==
    IF ~InBounds(r.ptr) THEN Panic(r, "index out of bounds")
    ELSE IF r.data[r.ptr] - 1 < 0 /\ oc
    THEN Panic(r, "attempt to subtract with overflow")
    ELSE Advance([r EXCEPT !.data[r.ptr] = WrapDecr(@)])

\* Node::ShiftLeft => *ptr -= 1
ExecShiftLeft(r, oc) ==
    IF r.ptr - 1 < 0 /\ oc
    THEN Panic(r, "attempt to subtract with overflow")
    ELSE Advance([r EXCEPT !.ptr = (@ + UsizeMod - 1) % UsizeMod])

\* Node::ShiftRight => *ptr += 1
ExecShiftRight(r, oc) ==
    IF r.ptr + 1 >= UsizeMod /\ oc
    THEN Panic(r, "attempt to add with overflow")
    ELSE Advance([r EXCEPT !.ptr = (@ + 1) % UsizeMod])

\* An Output through an unchecked index: past the tape it writes whatever
\* byte lies there.
ExecOutputUnchecked(r) ==
    Advance([r EXCEPT !.output =
                 Append(@, IF InBounds(r.ptr) THEN r.data[r.ptr] ELSE 0)])

\* An Output that writes nothing.
ExecOutputSilent(r) ==
    IF ~InBounds(r.ptr) THEN Panic(r, "index out of bounds")
    ELSE Advance(r)

\* An Output that writes the first cell instead of the current one.
ExecOutputFirstCell(r) ==
    IF ~InBounds(r.ptr) THEN Panic(r, "index out of bounds")
    ELSE Advance([r EXCEPT !.output = Append(@, r.data[0])])

\* Node::Output => output.write(&[data[*ptr]]).unwrap()
ExecOutput(r) ==
    IF ~InBounds(r.ptr) THEN Panic(r, "index out of bounds")
    ELSE Advance([r EXCEPT !.output = Append(@, r.data[r.ptr])])

\* Node::Input => stdin().read_exact(&mut input).unwrap(); data[*ptr] = input[0]
\* The read comes first: at end of stream read_exact returns Err and unwrap
\* panics; otherwise one byte is consumed and then stored through the index.
ExecInput(r, ev) ==
    IF ev.eof THEN Panic(r, "unwrap on Err(UnexpectedEof)")
    ELSE IF ~InBounds(r.ptr)
    THEN Panic([r EXCEPT !.nread = @ + 1], "index out of bounds")
    ELSE Advance([r EXCEPT !.data[r.ptr] = ev.byte, !.nread = @ + 1])

\* A loop that enters its body whatever the current cell holds.
LoopCondAlways(v) == TRUE

\* The test of `while data[*ptr] != 0`: whether the body is entered.
LoopCond(v) == v # 0

\* Node::Loop: one evaluation of the while condition.  When it holds,
\* _interpret(children, ..) is called; when it does not, the `for` loop of
\* this call moves on.
ExecLoop(r) ==
    IF ~InBounds(r.ptr) THEN Panic(r, "index out of bounds")
    ELSE IF LoopCond(r.data[r.ptr])
    THEN [r EXCEPT !.stack = Append(@, Frame(Cur(r).children))]
    ELSE Advance(r)

\* An `if` in place of the `while`: a body that returns leaves its loop.
ExecReturnLeavesLoop(r) ==
    IF Len(r.stack) = 1
    THEN [r EXCEPT !.stack = <<>>, !.status = "done"]
    ELSE Advance([r EXCEPT !.stack = SubSeq(@, 1, Len(@) - 1)])

\* The innermost call falls off its `for` loop and returns Ok(()).  A nested
\* call returns into the `while` of its Loop node, which tests its condition
\* again; the outermost call returns to interpret and the run is over.
ExecReturn(r) ==
    IF Len(r.stack) = 1
    THEN [r EXCEPT !.stack = <<>>, !.status = "done"]
    ELSE [r EXCEPT !.stack = SubSeq(@, 1, Len(@) - 1)]

\* One step of a run, whichever node it is at; ev is what standard input
\* does if the step is an Input.
Exec(r, oc, ev) ==
    IF ~Running(r) THEN r
    ELSE IF AtEnd(r) THEN ExecReturn(r)
    ELSE CASE Cur(r).op = "Incr" -> ExecIncr(r, oc)
           [] Cur(r).op = "Decr" -> ExecDecr(r, oc)
           [] Cur(r).op = "ShiftLeft" -> ExecShiftLeft(r, oc)
           [] Cur(r).op = "ShiftRight" -> ExecShiftRight(r, oc)
           [] Cur(r).op = "Output" -> ExecOutput(r)
           [] Cur(r).op = "Input" -> ExecInput(r, ev)
           [] OTHER -> ExecLoop(r)

\* ----------------------------------------------------------------- actions

Init ==
    /\ src \in Sources
    /\ overflow_checks \in BOOLEAN
    /\ cursor = 1
    /\ run = Idle
    /\ twin = Idle

\* interpret(input): parse, then set up the tape and the pointer.
interpret ==
    /\ run.status = "start"
    /\ run' = Begin(parse(src))
    /\ cursor' = parse(src).pos
    /\ twin' = Begin(parse(Strip(src)))
    /\ UNCHANGED <<src, overflow_checks>>

\* The steps of _interpret.  The twin run takes its own next step with the
\* same build and the same standard input.
Incr ==
    /\ At(run, "Incr")
    /\ run' = ExecIncr(run, overflow_checks)
    /\ twin' = Exec(twin, overflow_checks, EOF)
    /\ UNCHANGED <<src, overflow_checks, cursor>>

Decr ==
    /\ At(run, "Decr")
    /\ run' = ExecDecr(run, overflow_checks)
    /\ twin' = Exec(twin, overflow_checks, EOF)
    /\ UNCHANGED <<src, overflow_checks, cursor>>

ShiftLeft ==
    /\ At(run, "ShiftLeft")
    /\ run' = ExecShiftLeft(run, overflow_checks)
    /\ twin' = Exec(twin, overflow_checks, EOF)
    /\ UNCHANGED <<src, overflow_checks, cursor>>

ShiftRight ==
    /\ At(run, "ShiftRight")
    /\ run' = ExecShiftRight(run, overflow_checks)
    /\ twin' = Exec(twin, overflow_checks, EOF)
    /\ UNCHANGED <<src, overflow_checks, cursor>>

Output ==
    /\ At(run, "Output")
    /\ Len(run.output) < MaxOut
    /\ run' = ExecOutput(run)
    /\ twin' = Exec(twin, overflow_checks, EOF)
    /\ UNCHANGED <<src, overflow_checks, cursor>>

Input ==
    /\ At(run, "Input")
    /\ run.nread < MaxRead
    /\ \E ev \in StdinEvents :
          /\ run' = ExecInput(run, ev)
          /\ twin' = Exec(twin, overflow_checks, ev)
    /\ UNCHANGED <<src, overflow_checks, cursor>>

LoopTest ==
    /\ At(run, "Loop")
    /\ run' = ExecLoop(run)
    /\ twin' = Exec(twin, overflow_checks, EOF)
    /\ UNCHANGED <<src, overflow_checks, cursor>>

Return ==
    /\ Running(run)
    /\ AtEnd(run)
    /\ run' = ExecReturn(run)
    /\ twin' = Exec(twin, overflow_checks, EOF)
    /\ UNCHANGED <<src, overflow_checks, cursor>>

Next ==
    \/ interpret
    \/ Incr
    \/ Decr
    \/ ShiftLeft
    \/ ShiftRight
    \/ Output
    \/ Input
    \/ LoopTest
    \/ Return

Spec == Init /\ [][Next]_vars

\* The process is the only thread and always executes its next instruction;
\* a blocked read ends when a byte or the end of the stream arrives.
FairSpec == Spec /\ WF_vars(Next)

\* ---------------------------------------------------- bracket structure
\* Read off the source text alone, without the parser.

\* Number of `[` minus number of `]` among the first i characters.
Depth(s, i) ==
    Cardinality({k \in 1..i : s[k] = "["}) - Cardinality({k \in 1..i : s[k] = "]"})

\* Some `]` closes nothing: a prefix holds more `]` than `[`.
HasUnmatchedClose(s) == \E i \in 1..Len(s) : Depth(s, i) < 0

\* Some `[` is never closed: from it on, the depth stays above what it was.
HasUnmatchedOpen(s) ==
    \E i \in 1..Len(s) :
        /\ s[i] = "["
        /\ \A j \in i..Len(s) : Depth(s, j) > Depth(s, i - 1)

Balanced(s) == ~HasUnmatchedClose(s) /\ ~HasUnmatchedOpen(s)

\* The character an instruction node is written as.
OpChar(op) ==
    CASE op = "ShiftRight" -> ">"
      [] op = "ShiftLeft" -> "<"
      [] op = "Incr" -> "+"
      [] op = "Decr" -> "-"
      [] op = "Output" -> "."
      [] op = "Input" -> ","
      [] OTHER -> "?"

\* A tree printed back as source text, a Loop as `[` body `]`.
RECURSIVE Unparse(_)
Unparse(ast) ==
    IF ast = <<>>
    THEN <<>>
    ELSE LET n == Head(ast) IN
         (IF n.op = "Loop"
          THEN <<"[">> \o Unparse(n.children) \o <<"]">>
          ELSE <<OpChar(n.op)>>) \o Unparse(Tail(ast))

Parsed == run.status # "start"

\* ------------------------------------------------------------------ claims

\* C1: for every source in which some `[` has no matching `]` (the source `[`
\* alone among them), parse returns a parse error; it never returns Ok with a
\* Loop whose body was cut off at the end of the input.
C1_UnterminatedLoopIsError ==
    (Parsed /\ HasUnmatchedOpen(src)) => run.status = "parse_error"

\* C2: for every source in which a `]` occurs with no open loop (the source `]`
\* alone among them), parse returns a parse error, and the outermost build_ast
\* never returns Ok while tokens remain unconsumed.
C2_UnmatchedCloseIsError ==
    /\ (Parsed /\ HasUnmatchedClose(src)) => run.status = "parse_error"
    /\ (Parsed /\ run.status # "parse_error") => cursor = Len(src) + 1

\* C3: Incr and Decr are arithmetic modulo 256 on the current cell and never
\* abort the run: 255 + 1 gives 0 and 0 - 1 gives 255.
C3_CellArithmeticWraps ==
    [][/\ (At(run, "Incr") /\ InBounds(run.ptr)) =>
              /\ run'.status = "running"
              /\ run'.data[run.ptr] = (run.data[run.ptr] + 1) % 256
       /\ (At(run, "Decr") /\ InBounds(run.ptr)) =>
              /\ run'.status = "running"
              /\ run'.data[run.ptr] = (run.data[run.ptr] + 255) % 256]_vars

\* C4: a ShiftLeft executed with the pointer at 0, or a ShiftRight executed
\* with the pointer at the last cell, ends the run with a returned runtime
\* error; the pointer does not wrap or leave the tape and the tape is unchanged.
C4_ShiftOutOfBoundsIsError ==
    [][((At(run, "ShiftLeft") /\ run.ptr = 0)
        \/ (At(run, "ShiftRight") /\ run.ptr = TapeLen - 1)) =>
              /\ run'.status = "runtime_error"
              /\ run'.ptr = run.ptr
              /\ run'.data = run.data]_vars

\* C5: for every source with balanced brackets parse returns Ok, has consumed
\* every token, and the tree printed back with brackets is the source without
\* its comment characters: leaves in source order, one Loop per `[` holding
\* exactly what stands between it and its matching `]`.
C5_ParseMirrorsBrackets ==
    (Parsed /\ Balanced(src)) =>
        /\ run.status # "parse_error"
        /\ cursor = Len(src) + 1
        /\ Unparse(run.ast) = Strip(src)

C5_Witness ==
    /\ src = NestedLoops
    /\ run.status = "running"
    /\ Len(run.ast) = 3
    /\ Len(run.ast[3].children) = 7

\* C6: a Loop is a while loop.  Its condition is tested before every pass: with
\* the current cell 0 the body is not entered and nothing but the position
\* changes; with the current cell nonzero the body is entered at its first
\* node.  A body is entered in no other way, it is left only at its end and the
\* loop then tests its condition again; inside it every completed instruction
\* moves to the next one.  Whenever a loop finishes, the current cell is 0.
C6_LoopIsWhile ==
    [][/\ (At(run, "Loop") /\ InBounds(run.ptr) /\ run.data[run.ptr] = 0) =>
              /\ run'.status = "running"
              /\ Len(run'.stack) = Len(run.stack)
              /\ Top(run').nodes = Top(run).nodes
              /\ Top(run').idx = Top(run).idx + 1
              /\ run'.data = run.data
              /\ run'.ptr = run.ptr
              /\ run'.output = run.output
       /\ (At(run, "Loop") /\ InBounds(run.ptr) /\ run.data[run.ptr] # 0) =>
              /\ run'.status = "running"
              /\ Len(run'.stack) = Len(run.stack) + 1
              /\ Top(run').nodes = Cur(run).children
              /\ Top(run').idx = 1
              /\ run'.data = run.data
              /\ run'.ptr = run.ptr
              /\ run'.output = run.output
       /\ (Running(run) /\ Len(run'.stack) > Len(run.stack)) =>
              /\ At(run, "Loop")
              /\ InBounds(run.ptr)
              /\ run.data[run.ptr] # 0
       /\ (Running(run) /\ Len(run'.stack) < Len(run.stack)) =>
              /\ AtEnd(run)
              /\ Len(run'.stack) = Len(run.stack) - 1
              /\ Running(run') =>
                     /\ At(run', "Loop")
                     /\ Top(run') = run.stack[Len(run.stack) - 1]
       /\ (Running(run) /\ ~AtEnd(run) /\ Cur(run).op # "Loop" /\ Running(run')) =>
              /\ Len(run'.stack) = Len(run.stack)
              /\ Top(run').nodes = Top(run).nodes
              /\ Top(run').idx = Top(run).idx + 1
       /\ (/\ At(run, "Loop")
           /\ Running(run')
           /\ Len(run'.stack) = Len(run.stack)
           /\ Top(run').idx = Top(run).idx + 1) =>
              /\ InBounds(run'.ptr)
              /\ run'.data[run'.ptr] = 0]_vars

\* The inner loop of `++[>+++[<.>-]<-]` has finished after three passes.
C6_Witness ==
    /\ src = NestedLoops
    /\ At(run, "ShiftLeft")
    /\ Len(run.stack) = 2
    /\ Top(run).idx = 6
    /\ run.output = <<2, 2, 2>>
    /\ run.data[run.ptr] = 0

\* C7: comment characters inserted anywhere in a program with balanced
\* brackets change nothing: the parsed tree is that of the program without
\* them, and so are the run's status, output, tape and pointer at every step.
C7_CommentTransparency ==
    Balanced(src) =>
        /\ run.ast = twin.ast
        /\ run.status = twin.status
        /\ run.output = twin.output
        /\ run.data = twin.data
        /\ run.ptr = twin.ptr
        /\ run.stack = twin.stack

C7_Witness ==
    /\ src = LoopOnceCommented
    /\ run.status = "done"
    /\ run.output = <<0>>
    /\ twin.status = "done"

\* C8: the run of `+[-.]` terminates and its output is exactly one byte, 0.
C8_LoopOnceOutputsZero ==
    /\ [](src = LoopOnce /\ run.status = "done" => run.output = <<0>>)
    /\ [](src = LoopOnce => run.status # "panicked")
    /\ (src = LoopOnce) ~> (run.status = "done")

C8_Witness ==
    /\ src = LoopOnce
    /\ run.status = "done"
    /\ run.output = <<0>>

\* C9: the run of `++[>+++[<.>-]<-]` terminates, in every build, with the
\* output 2,2,2,1,1,1, cells 0 and 1 both zero and the pointer at cell 0.
C9_NestedLoopsOutput ==
    /\ [](src = NestedLoops /\ run.status = "done" =>
              /\ run.output = <<2, 2, 2, 1, 1, 1>>
              /\ run.data[0] = 0
              /\ run.data[1] = 0
              /\ run.ptr = 0)
    /\ [](src = NestedLoops => run.status # "panicked")
    /\ (src = NestedLoops) ~> (run.status = "done")

C9_Witness ==
    /\ src = NestedLoops
    /\ run.status = "done"
    /\ run.output = <<2, 2, 2, 1, 1, 1>>
    /\ run.ptr = 0

\* C10: the output only grows, one byte at a time and at its end: a completed
\* Output appends the current cell's value, an Output that panics writes
\* nothing, and no other step touches the output.
C10_OutputAppendOnly ==
    [][/\ (At(run, "Output") /\ Running(run')) =>
              /\ InBounds(run.ptr)
              /\ run'.output = Append(run.output, run.data[run.ptr])
       /\ (At(run, "Output") /\ InBounds(run.ptr)) => Running(run')
       /\ ~(At(run, "Output") /\ Running(run')) => run'.output = run.output]_vars

\* Two bytes written in execution order, the second after the cell changed.
C10_Witness ==
    /\ run.status = "done"
    /\ run.output = <<0, 255>>

\* C11: an Input executed with standard input exhausted does not abort the
\* run: the cell, the pointer and the rest of the tape are unchanged and the
\* run goes on.  With a byte available it consumes exactly one byte and stores
\* it in the current cell.
C11_InputAtEofContinues ==
    [][(At(run, "Input") /\ InBounds(run.ptr)) =>
              /\ run'.status = "running"
              /\ run'.ptr = run.ptr
              /\ \/ /\ run'.nread = run.nread
                    /\ run'.data = run.data
                 \/ /\ run'.nread = run.nread + 1
                    /\ \A i \in 0..(TapeLen - 1) :
                           i # run.ptr => run'.data[i] = run.data[i]]_vars

\* C12: parse fails only for structural reasons.  Whatever else a source with
\* balanced brackets contains, parse returns Ok; and no Expr token that
\* tokenize produces reaches the "unknown expression" arm of build_ast.
C12_ParseFailsOnlyStructurally ==
    /\ (Parsed /\ Balanced(src)) => run.status # "parse_error"
    /\ \A i \in 1..Len(src) :
           tokenize(src)[i][1] = "Expr" =>
               ExprNode(tokenize(src)[i][2]).op # "unknown"

C12_Witness ==
    /\ src = <<",", "a", ".">>
    /\ run.status = "running"
    /\ Len(run.ast) = 2

\* C13: tokenize returns one token per character, in order: each of > < + - .
\* , gives Expr of that character, `[` gives OpenLoop, `]` gives CloseLoop and
\* every other character gives Comment.
C13_TokenizeClassifies ==
    /\ Len(tokenize(src)) = Len(src)
    /\ \A i \in 1..Len(src) :
           /\ src[i] \in {">", "<", "+", "-", ".", ","} =>
                  tokenize(src)[i] = <<"Expr", src[i]>>
           /\ src[i] = "[" => tokenize(src)[i] = <<"OpenLoop">>
           /\ src[i] = "]" => tokenize(src)[i] = <<"CloseLoop">>
           /\ src[i] \notin {">", "<", "+", "-", ".", ",", "[", "]"} =>
                  tokenize(src)[i] = <<"Comment">>

C13_Witness ==
    /\ src = <<"[", "\n", "]">>
    /\ Parsed
    /\ cursor = 4

\* C14: parsing the empty string yields the empty sequence, and its run
\* reaches the terminal state having read nothing and written nothing, with
\* the pointer at 0 and every cell 0.
C14_EmptyProgram ==
    /\ [](src = <<>> /\ Parsed => run.status # "parse_error" /\ run.ast = <<>>)
    /\ [](src = <<>> =>
              /\ run.status \in {"start", "running", "done"}
              /\ run.nread = 0
              /\ run.output = <<>>
              /\ run.ptr = 0
              /\ \A i \in 0..(TapeLen - 1) : run.data[i] = 0)
    /\ (src = <<>>) ~> (run.status = "done")

C14_Witness ==
    /\ src = <<>>
    /\ run.status = "done"
    /\ run.ast = <<>>
    /\ run.nread = 0
    /\ run.output = <<>>

\* C15: a runtime error is fail-fast through any depth of loop nesting.  An
\* instruction in a loop body that fails (a shift that would leave the tape)
\* ends the run there with that error returned: no later change of tape,
\* pointer, input or output, no further loop test.
C15_RuntimeErrorsFailFast ==
    /\ [][(/\ Balanced(src)
           /\ Len(run.stack) >= 2
           /\ \/ At(run, "ShiftLeft") /\ run.ptr = 0
              \/ At(run, "ShiftRight") /\ run.ptr = TapeLen - 1) =>
                 /\ run'.status = "runtime_error"
                 /\ run'.data = run.data
                 /\ run'.ptr = run.ptr
                 /\ run'.output = run.output
                 /\ run'.nread = run.nread]_vars
    /\ [][run.status = "runtime_error" => run' = run]_vars

\* C16: the run of `+[]` never ends.  It is never done and never aborted, it
\* always has a next step, and from the first test of the loop on the tape
\* (cell 0 holding 1), the pointer and the output stay as they are.
C16_EmptyLoopNeverEnds ==
    src = EmptyLoop =>
        /\ run.status \in {"start", "running"}
        /\ ENABLED Next
        /\ (Running(run) /\ run.stack[1].idx = 2) =>
               /\ run.data[0] = 1
               /\ \A i \in 1..(TapeLen - 1) : run.data[i] = 0
               /\ run.ptr = 0
               /\ run.output = <<>>
               /\ run.nread = 0

\* The body of the empty loop has been entered.
C16_Witness ==
    /\ src = EmptyLoop
    /\ Len(run.stack) = 2
    /\ AtEnd(run)
    /\ run.data[0] = 1

\* The step from run to run' executes a node that accesses data[*ptr], and the
\* access takes place: the step does not end in the panic of the bounds check,
\* nor (an Input) in the panic of the read that precedes the access.
AccessesCell ==
    /\ \/ At(run, "Incr")
       \/ At(run, "Decr")
       \/ At(run, "Output")
       \/ At(run, "Input")
       \/ At(run, "Loop")
    /\ run'.panic \notin {"index out of bounds", "unwrap on Err(UnexpectedEof)"}

C18_StepFrames ==
    [][/\ (At(run, "Incr") \/ At(run, "Decr")) =>
              /\ run'.ptr = run.ptr
              /\ run'.output = run.output
              /\ run'.nread = run.nread
              /\ \A i \in 0..(TapeLen - 1) :
                     i # run.ptr => run'.data[i] = run.data[i]
       /\ (At(run, "ShiftLeft") /\ Running(run')) =>
              /\ run'.ptr = run.ptr - 1
              /\ run'.data = run.data
              /\ run'.output = run.output
              /\ run'.nread = run.nread
       /\ (At(run, "ShiftRight") /\ Running(run')) =>
              /\ run'.ptr = run.ptr + 1
              /\ run'.data = run.data
              /\ run'.output = run.output
              /\ run'.nread = run.nread
       /\ At(run, "Output") =>
              /\ run'.ptr = run.ptr
              /\ run'.data = run.data
              /\ run'.nread = run.nread
       /\ At(run, "Input") =>
              /\ run'.ptr = run.ptr
              /\ run'.output = run.output
              /\ run'.nread \in {run.nread, run.nread + 1}
              /\ \A i \in 0..(TapeLen - 1) :
                     i # run.ptr => run'.data[i] = run.data[i]
       /\ At(run, "Loop") =>
              /\ run'.ptr = run.ptr
              /\ run'.data = run.data
              /\ run'.output = run.output
              /\ run'.nread = run.nread]_vars

\* No Loop node in the parsed tree (a Loop can only be nested in a Loop).
NoLoopNode == \A i \in 1..Len(run.ast) : run.ast[i].op # "Loop"

\* C19: build_ast ends with the iterator inside or just past the tokens, and
\* the run of a program without a Loop node reaches the terminal state, one
\* top-level node after the other, each executed once.
C19_LoopFreeRunCompletes ==
    /\ [](Parsed => cursor \in 2..(Len(src) + 1) \/ src = <<>>)
    /\ [](Parsed /\ NoLoopNode => run.status # "panicked")
    /\ [][(Parsed /\ NoLoopNode /\ Running(run) /\ Running(run')) =>
              /\ Len(run'.stack) = 1
              /\ Top(run').idx = Top(run).idx + 1]_vars
    /\ (Parsed /\ NoLoopNode) ~> (run.status = "done")

====
